---- MODULE Spec2Model ----
(***************************************************************************)
(* Model of the metadata read/modify endpoints of main.py:                 *)
(*   get_file_metadata     (POST /get-metadata/)                           *)
(*   modify_file_metadata  (POST /process-file/)                           *)
(*                                                                         *)
(* A filename is a sequence of tokens: "." (os.extsep), "/" (os.sep) and   *)
(* stems that contain neither (so "a.docx" is <<"a", ".", "docx">>).       *)
(* A message is a sequence of text fragments, so that an f-string is the   *)
(* concatenation of its parts.  An uploaded byte sequence is a record      *)
(* [fmt, core, body]: the container format it really is ("garbage" when it *)
(* is no container at all), its core properties and its other content.     *)
(* The container libraries (docx, pptx, openpyxl) are modelled by their     *)
(* contract: open-from-bytes fails on bytes of another format, attribute    *)
(* assignment stores, save writes the format's own core properties.         *)
(***************************************************************************)
EXTENDS Integers, Sequences, FiniteSets, TLC

VARIABLES pc, request, response, trace, chained

vars == <<pc, request, response, trace, chained>>

---------------------------------------------------------------------------
(* Bounds *)

\* number of request slots handled concurrently
NumRequests == 2

\* longest filename, in tokens
MaxNameLen == 5

Requests == 1..NumRequests

---------------------------------------------------------------------------
(* Values *)

\* Python's None for an Optional[str]; no string of Strings equals it
None == "<None>"

Strings == {"", "A", "B", "C"}

OptStrings == Strings \cup {None}

\* x or d  (None and "" are falsy)
Or(x, d) == IF x = None \/ x = "" THEN d ELSE x

HTTP_400 == 400

HTTP_500 == 500

HTTP_200 == 200

---------------------------------------------------------------------------
(* Filenames and os.path.splitext *)

Tokens == {".", "/", "docx", "pptx", "xlsx", "DOCX", "a"}

Filenames == UNION {[1..n -> Tokens] : n \in 0..MaxNameLen}

\* the literals ".docx", ".pptx", ".xlsx" the handlers compare with
EXT_DOCX == <<".", "docx">>

EXT_PPTX == <<".", "pptx">>

EXT_XLSX == <<".", "xlsx">>

\* p.rfind(c), 1-based: the last index of c in p, 0 when c does not occur
RECURSIVE rfindFrom(_, _, _)
rfindFrom(p, c, i) ==
    IF i = 0 THEN 0
    ELSE IF p[i] = c THEN i
    ELSE rfindFrom(p, c, i - 1)

rfind(p, c) == rfindFrom(p, c, Len(p))

\* the loop of genericpath._splitext that skips the leading dots of the last
\* path component: TRUE when a character other than "." precedes dotIndex
RECURSIVE skipLeadingDots(_, _, _)
skipLeadingDots(p, filenameIndex, dotIndex) ==
    IF filenameIndex < dotIndex
    THEN IF p[filenameIndex] # "."
         THEN TRUE
         ELSE skipLeadingDots(p, filenameIndex + 1, dotIndex)
    ELSE FALSE

\* a split at the last "." wherever it stands (p.rpartition("."))
splitext_last_dot(p) ==
    LET dotIndex == rfind(p, ".")
    IN  IF dotIndex > 0
        THEN <<SubSeq(p, 1, dotIndex - 1), SubSeq(p, dotIndex, Len(p))>>
        ELSE <<p, <<>>>>

\* os.path.splitext(p) on POSIX: <<root, ext>>
splitext(p) ==
    LET sepIndex == rfind(p, "/")
        dotIndex == rfind(p, ".")
    IN  IF dotIndex > sepIndex /\ skipLeadingDots(p, sepIndex + 1, dotIndex)
        THEN <<SubSeq(p, 1, dotIndex - 1), SubSeq(p, dotIndex, Len(p))>>
        ELSE <<p, <<>>>>

---------------------------------------------------------------------------
(* Outcomes of a try body: a value returned or an exception raised.  opened *)
(* lists the library openers called, written the attribute names assigned.  *)

NoValue == <<>>

NoExc == [type |-> "", status_code |-> 0, detail |-> <<>>]

Ok(v, o, w) ==
    [raised |-> FALSE, value |-> v, exc |-> NoExc, opened |-> o, written |-> w]

Raised(e, o, w) ==
    [raised |-> TRUE, value |-> NoValue, exc |-> e, opened |-> o, written |-> w]

HTTPException(code, msg) ==
    [type |-> "HTTPException", status_code |-> code, detail |-> msg]

\* str(e) of an exception whose message is lost
Str_empty(e) == <<>>

\* str(e): starlette's HTTPException prints "<status_code>: <detail>", any
\* other exception prints its message
Str(e) ==
    IF e.type = "HTTPException"
    THEN <<ToString(e.status_code), ": ">> \o e.detail
    ELSE e.detail

---------------------------------------------------------------------------
(* The container libraries *)

Formats == {"docx", "pptx", "xlsx"}

\* the core properties a container of each format carries: openpyxl names the
\* identity fields creator / lastModifiedBy, docx and pptx author /
\* last_modified_by
CoreNames(fmt) ==
    IF fmt = "xlsx"
    THEN {"creator", "lastModifiedBy", "title"}
    ELSE {"author", "last_modified_by", "title"}

\* the library's message when lib cannot open bytes of format fmt
LibraryMessage(lib, fmt) ==
    IF fmt = "garbage"
    THEN <<"File is not a zip file">>
    ELSE <<"not a ", lib, " package: ", fmt>>

\* open-from-bytes of library lib
OpenContainer(lib, stream) ==
    IF stream.fmt = lib
    THEN Ok([kind |-> lib, props |-> stream.core, body |-> stream.body],
            <<lib>>, {})
    ELSE Raised([type |-> "LibraryError", status_code |-> 0,
                 detail |-> LibraryMessage(lib, stream.fmt)], <<lib>>, {})

docx_Document(stream) == OpenContainer("docx", stream)

pptx_Presentation(stream) == OpenContainer("pptx", stream)

openpyxl_load_workbook(stream) == OpenContainer("xlsx", stream)

\* props.<name> = v: a Python attribute assignment, which creates the
\* attribute when the object has none of that name
SetAttr(doc, name, v) ==
    [doc EXCEPT !.props =
        [n \in (DOMAIN doc.props) \cup {name} |->
            IF n = name THEN v ELSE doc.props[n]]]

\* no bytes at all
EmptyBytes == [fmt |-> "garbage", core |-> [n \in {} |-> None], body |-> ""]

\* output_stream = io.BytesIO(); doc_obj.save(output_stream): the bytes
\* written hold the format's own core properties and the body (an attribute of
\* another name is not serialised), and the stream is left at its end
Save(doc) ==
    [data |-> [fmt  |-> doc.kind,
               core |-> [n \in CoreNames(doc.kind) |-> doc.props[n]],
               body |-> doc.body],
     pos  |-> "end"]

\* seek(0) left out: the stream stays where save left it
Seek0_missing(stream) == stream

\* output_stream.seek(0)
Seek0(stream) == [stream EXCEPT !.pos = "start"]

---------------------------------------------------------------------------
(* Responses *)

JSONResponse(content) ==
    [status_code |-> HTTP_200, detail |-> <<>>, content |-> content,
     filename |-> <<>>]

\* what a reader of the stream gets: the data from the stream's position on
StreamBody(stream) ==
    IF stream.pos = "start" THEN stream.data ELSE EmptyBytes

\* StreamingResponse(output_stream, headers = Content-Disposition filename):
\* the body sent is what is left to read of output_stream
StreamingResponse(output_stream, original_filename) ==
    [status_code |-> HTTP_200, detail |-> <<>>,
     content |-> StreamBody(output_stream), filename |-> original_filename]

\* the response the framework sends for an HTTPException leaving a handler
ErrorResponse(e) ==
    [status_code |-> e.status_code, detail |-> e.detail, content |-> NoValue,
     filename |-> <<>>]

---------------------------------------------------------------------------
(* get_file_metadata *)

\* ReadIdentity without the 'or ""': an unset field is returned as None
ReadIdentity_raw(o, a, l) ==
    IF o.raised THEN o
    ELSE IF {a, l} \subseteq DOMAIN o.value.props
    THEN Ok([author           |-> o.value.props[a],
             last_modified_by |-> o.value.props[l]], o.opened, {})
    ELSE Raised([type |-> "AttributeError", status_code |-> 0,
                 detail |-> <<"object has no attribute">>], o.opened, {})

\* props = <document>.core_properties / wb.properties, then
\* metadata["author"] = props.<a> or "", metadata["last_modified_by"] =
\* props.<l> or ""; o is the outcome of the opener
ReadIdentity(o, a, l) ==
    IF o.raised THEN o
    ELSE IF {a, l} \subseteq DOMAIN o.value.props
    THEN Ok([author           |-> Or(o.value.props[a], ""),
             last_modified_by |-> Or(o.value.props[l], "")], o.opened, {})
    ELSE Raised([type |-> "AttributeError", status_code |-> 0,
                 detail |-> <<"object has no attribute">>], o.opened, {})

\* the body of the try statement of get_file_metadata
get_try(file_extension, file_stream) ==
    LET metadata ==
            IF file_extension = EXT_DOCX
            THEN ReadIdentity(docx_Document(file_stream),
                              "author", "last_modified_by")
            ELSE IF file_extension = EXT_PPTX
            THEN ReadIdentity(pptx_Presentation(file_stream),
                              "author", "last_modified_by")
            ELSE IF file_extension = EXT_XLSX
            THEN ReadIdentity(openpyxl_load_workbook(file_stream),
                              "creator", "lastModifiedBy")
            ELSE Raised(HTTPException(HTTP_400, <<"Unsupported file type.">>),
                        <<>>, {})
    IN  IF metadata.raised THEN metadata
        ELSE Ok(JSONResponse(metadata.value), metadata.opened, {})

\* the handler after file.read() returned file_content: the try body, and the
\* except clause that catches every Exception, an HTTPException included
get_file_metadata(filename, file_content) ==
    LET file_extension == splitext(filename)[2]
        t == get_try(file_extension, file_content)
    IN  [response |->
            IF t.raised
            THEN ErrorResponse(HTTPException(HTTP_500,
                     <<"Failed to read metadata: ">> \o Str(t.exc)))
            ELSE t.value,
         opened  |-> t.opened,
         written |-> t.written]

---------------------------------------------------------------------------
(* modify_file_metadata *)

\* the if/elif chain that opens the document
modify_open(file_extension, file_stream) ==
    IF file_extension = EXT_DOCX THEN docx_Document(file_stream)
    ELSE IF file_extension = EXT_PPTX THEN pptx_Presentation(file_stream)
    ELSE IF file_extension = EXT_XLSX THEN openpyxl_load_workbook(file_stream)
    ELSE Raised(HTTPException(HTTP_400,
            <<"Unsupported file type. Please upload a .docx, .pptx, or .xlsx file.">>),
            <<>>, {})

\* write_author testing the truth of author: "" counts as absent
write_author_truthy(file_extension, doc_obj, author) ==
    IF author # None /\ author # ""
    THEN IF file_extension = EXT_XLSX
         THEN [doc |-> SetAttr(doc_obj, "creator", author), names |-> {"creator"}]
         ELSE [doc |-> SetAttr(doc_obj, "author", author), names |-> {"author"}]
    ELSE [doc |-> doc_obj, names |-> {}]

\* write_author without the .xlsx branch: always props.author
write_author_kind_blind(file_extension, doc_obj, author) ==
    IF author # None
    THEN [doc |-> SetAttr(doc_obj, "author", author), names |-> {"author"}]
    ELSE [doc |-> doc_obj, names |-> {}]

\* if author is not None: props.creator / props.author = author
write_author(file_extension, doc_obj, author) ==
    IF author # None
    THEN IF file_extension = EXT_XLSX
         THEN [doc |-> SetAttr(doc_obj, "creator", author), names |-> {"creator"}]
         ELSE [doc |-> SetAttr(doc_obj, "author", author), names |-> {"author"}]
    ELSE [doc |-> doc_obj, names |-> {}]

\* write_last_modified_by without the None test: an absent field is written
\* as ""
write_last_modified_by_always(file_extension, doc_obj, last_modified_by) ==
    IF file_extension = EXT_XLSX
    THEN [doc   |-> SetAttr(doc_obj, "lastModifiedBy", Or(last_modified_by, "")),
          names |-> {"lastModifiedBy"}]
    ELSE [doc   |-> SetAttr(doc_obj, "last_modified_by", Or(last_modified_by, "")),
          names |-> {"last_modified_by"}]

\* write_last_modified_by with the two attribute names exchanged
write_last_modified_by_swapped(file_extension, doc_obj, last_modified_by) ==
    IF last_modified_by # None
    THEN IF file_extension = EXT_XLSX
         THEN [doc   |-> SetAttr(doc_obj, "last_modified_by", last_modified_by),
               names |-> {"last_modified_by"}]
         ELSE [doc   |-> SetAttr(doc_obj, "lastModifiedBy", last_modified_by),
               names |-> {"lastModifiedBy"}]
    ELSE [doc |-> doc_obj, names |-> {}]

\* if last_modified_by is not None: props.lastModifiedBy /
\* props.last_modified_by = last_modified_by
write_last_modified_by(file_extension, doc_obj, last_modified_by) ==
    IF last_modified_by # None
    THEN IF file_extension = EXT_XLSX
         THEN [doc   |-> SetAttr(doc_obj, "lastModifiedBy", last_modified_by),
               names |-> {"lastModifiedBy"}]
         ELSE [doc   |-> SetAttr(doc_obj, "last_modified_by", last_modified_by),
               names |-> {"last_modified_by"}]
    ELSE [doc |-> doc_obj, names |-> {}]

\* the body of the try statement of modify_file_metadata
modify_try(file_extension, file_stream, original_filename, author, last_modified_by) ==
    LET o == modify_open(file_extension, file_stream)
    IN  IF o.raised THEN o
        ELSE LET w1 == write_author(file_extension, o.value, author)
                 w2 == write_last_modified_by(file_extension, w1.doc,
                                              last_modified_by)
                 output_stream == Seek0(Save(w2.doc))
             IN  Ok(StreamingResponse(output_stream, original_filename),
                    o.opened, w1.names \cup w2.names)

\* the handler after file.read() returned file_content
modify_file_metadata(filename, file_content, author, last_modified_by) ==
    LET file_extension == splitext(filename)[2]
        t == modify_try(file_extension, file_content, filename, author,
                        last_modified_by)
    IN  [response |->
            IF t.raised
            THEN ErrorResponse(HTTPException(HTTP_500,
                     <<"Failed to process file: ">> \o Str(t.exc)))
            ELSE t.value,
         opened  |-> t.opened,
         written |-> t.written]

---------------------------------------------------------------------------
(* Uploaded documents and form values *)

Bodies == {"body1", "body2"}

Titles == {"T"}

\* a valid container of format fmt with identity fields a, l (None: not set)
Doc(fmt, a, l, t, b) ==
    [fmt  |-> fmt,
     core |-> IF fmt = "xlsx"
              THEN [creator |-> a, lastModifiedBy |-> l, title |-> t]
              ELSE [author |-> a, last_modified_by |-> l, title |-> t],
     body |-> b]

\* bytes that are no container of any format
Garbage == [fmt |-> "garbage", core |-> [n \in {} |-> None], body |-> "noise"]

ValidDocs ==
    {Doc(f, a, l, t, b) :
        f \in Formats, a \in OptStrings, l \in OptStrings, t \in Titles,
        b \in Bodies}

\* Form(None): each field is a string or absent
Forms == [author : OptStrings, last_modified_by : OptStrings]

NoForm == [author |-> None, last_modified_by |-> None]

---------------------------------------------------------------------------
(* State *)

NoRequest ==
    [op |-> "none", filename |-> <<>>, file |-> Garbage,
     author |-> None, last_modified_by |-> None]

NoResponse ==
    [status_code |-> 0, detail |-> <<>>, content |-> NoValue, filename |-> <<>>]

NoTrace == [opened |-> <<>>, written |-> {}]

Init ==
    /\ pc = [r \in Requests |-> "idle"]
    /\ request = [r \in Requests |-> NoRequest]
    /\ response = [r \in Requests |-> NoResponse]
    /\ trace = [r \in Requests |-> NoTrace]
    /\ chained = [r \in Requests |-> NoRequest]

\* file.read() on one stream kept at module level: the content of the upload
\* of the lowest-numbered request in flight
FileRead_shared(r) ==
    request[CHOOSE q \in Requests :
                /\ pc[q] # "idle"
                /\ \A o \in Requests : pc[o] # "idle" => q <= o].file

\* await file.read(): the whole content of this request's own UploadFile
FileRead(r) == request[r].file

\* a client posts to /get-metadata/: the handler logs and suspends at
\* await file.read()
CallGet(r, names, docs) ==
    /\ pc[r] = "idle"
    /\ \E n \in names, d \in docs :
          request' = [request EXCEPT ![r] =
              [op |-> "get", filename |-> n, file |-> d,
               author |-> None, last_modified_by |-> None]]
    /\ pc' = [pc EXCEPT ![r] = "await_read"]
    /\ UNCHANGED <<response, trace, chained>>

\* a client posts to /process-file/
CallModify(r, names, docs, forms) ==
    /\ pc[r] = "idle"
    /\ \E n \in names, d \in docs, f \in forms :
          request' = [request EXCEPT ![r] =
              [op |-> "modify", filename |-> n, file |-> d,
               author |-> f.author, last_modified_by |-> f.last_modified_by]]
    /\ pc' = [pc EXCEPT ![r] = "await_read"]
    /\ UNCHANGED <<response, trace, chained>>

\* get_file_metadata resumes after the await and runs to its response
ResumeGet(r) ==
    /\ pc[r] = "await_read"
    /\ request[r].op = "get"
    /\ LET out == get_file_metadata(request[r].filename, FileRead(r))
       IN  /\ response' = [response EXCEPT ![r] = out.response]
           /\ trace' = [trace EXCEPT ![r] =
                  [opened |-> out.opened, written |-> out.written]]
    /\ pc' = [pc EXCEPT ![r] = "done"]
    /\ UNCHANGED <<request, chained>>

\* modify_file_metadata resumes after the await and runs to its response
ResumeModify(r) ==
    /\ pc[r] = "await_read"
    /\ request[r].op = "modify"
    /\ LET out == modify_file_metadata(request[r].filename, FileRead(r),
                      request[r].author, request[r].last_modified_by)
       IN  /\ response' = [response EXCEPT ![r] = out.response]
           /\ trace' = [trace EXCEPT ![r] =
                  [opened |-> out.opened, written |-> out.written]]
    /\ pc' = [pc EXCEPT ![r] = "done"]
    /\ UNCHANGED <<request, chained>>

\* the client posts the bytes it got back from /process-file/ to
\* /get-metadata/ under the same filename; chained keeps the request that
\* produced them
Reupload(r) ==
    /\ pc[r] = "done"
    /\ request[r].op = "modify"
    /\ response[r].status_code = HTTP_200
    /\ request' = [request EXCEPT ![r] =
          [op |-> "get", filename |-> request[r].filename,
           file |-> response[r].content,
           author |-> None, last_modified_by |-> None]]
    /\ chained' = [chained EXCEPT ![r] = request[r]]
    /\ response' = [response EXCEPT ![r] = NoResponse]
    /\ trace' = [trace EXCEPT ![r] = NoTrace]
    /\ pc' = [pc EXCEPT ![r] = "await_read"]

\* the response is delivered and the request's objects are dropped
Close(r) ==
    /\ pc[r] = "done"
    /\ pc' = [pc EXCEPT ![r] = "idle"]
    /\ request' = [request EXCEPT ![r] = NoRequest]
    /\ response' = [response EXCEPT ![r] = NoResponse]
    /\ trace' = [trace EXCEPT ![r] = NoTrace]
    /\ chained' = [chained EXCEPT ![r] = NoRequest]

---------------------------------------------------------------------------
(* Specifications *)

\* Spec: NumRequests requests in flight at once, over a few inputs
NamesSmall == {<<"a", ".", "docx">>, <<"a", ".", "xlsx">>, <<"a">>}

DocsSmall ==
    {Doc("docx", "A", "B", "T", "body1"), Doc("xlsx", None, "B", "T", "body2"),
     Garbage}

FormsSmall ==
    {[author |-> "B", last_modified_by |-> None],
     [author |-> None, last_modified_by |-> ""]}

Next ==
    \E r \in Requests :
        \/ CallGet(r, NamesSmall, DocsSmall)
        \/ CallModify(r, NamesSmall, DocsSmall, FormsSmall)
        \/ ResumeGet(r)
        \/ ResumeModify(r)
        \/ Reupload(r)
        \/ Close(r)

Spec == Init /\ [][Next]_vars

\* SpecDetect: one request at a time, every filename of up to MaxNameLen tokens
DocsOne == {Doc("docx", "A", "B", "T", "body1")}

FormsOne == {[author |-> "B", last_modified_by |-> None]}

NextDetect ==
    \/ CallGet(1, Filenames, DocsOne)
    \/ CallModify(1, Filenames, DocsOne, FormsOne)
    \/ ResumeGet(1)
    \/ ResumeModify(1)
    \/ Reupload(1)
    \/ Close(1)

SpecDetect == Init /\ [][NextDetect]_vars

\* SpecCodec: one request at a time, every document and every form value
NamesKinds ==
    {<<"a", ".", "docx">>, <<"a", ".", "pptx">>, <<"a", ".", "xlsx">>,
     <<"a", ".", "DOCX">>}

NextCodec ==
    \/ CallGet(1, NamesKinds, ValidDocs \cup {Garbage})
    \/ CallModify(1, NamesKinds, ValidDocs \cup {Garbage}, Forms)
    \/ ResumeGet(1)
    \/ ResumeModify(1)
    \/ Reupload(1)
    \/ Close(1)

SpecCodec == Init /\ [][NextCodec]_vars

---------------------------------------------------------------------------
(* Vocabulary of the properties *)

Done(r) == pc[r] = "done"

\* the normalized identity fields of a container's bytes
IdentityAuthor(b) ==
    IF b.fmt = "xlsx" THEN b.core["creator"] ELSE b.core["author"]

IdentityLastModifiedBy(b) ==
    IF b.fmt = "xlsx" THEN b.core["lastModifiedBy"] ELSE b.core["last_modified_by"]

\* the position of the last "." of p, 0 when there is none
LastDot(p) ==
    IF \E i \in 1..Len(p) : p[i] = "."
    THEN CHOOSE i \in 1..Len(p) :
            p[i] = "." /\ \A j \in (i + 1)..Len(p) : p[j] # "."
    ELSE 0

TextAfterLastDot(p) == SubSeq(p, LastDot(p) + 1, Len(p))

\* detection by the text after the last "." alone
SuffixKind(p) ==
    IF LastDot(p) > 0 /\ Len(TextAfterLastDot(p)) = 1
                      /\ TextAfterLastDot(p)[1] \in Formats
    THEN TextAfterLastDot(p)[1]
    ELSE "NotSupported"

\* the last "." lies in the last path component and some character other
\* than "." precedes it there
DotInsideLastComponent(p) ==
    \E k \in 1..(LastDot(p) - 1) :
        /\ p[k] # "."
        /\ \A j \in k..Len(p) : p[j] # "/"

\* detection as above, restricted to names whose last "." is such a dot
Detect(p) ==
    IF DotInsideLastComponent(p) THEN SuffixKind(p) ELSE "NotSupported"

\* request r carries a valid document under a filename of its own kind
Valid(r) ==
    /\ request[r].file.fmt \in Formats
    /\ Detect(request[r].filename) = request[r].file.fmt

\* request r is the re-upload of the output of an UpdateMetadata request
Chained(r) == request[r].op = "get" /\ chained[r].op = "modify"

---------------------------------------------------------------------------
(* Properties *)

\* C1: a successful UpdateMetadata with one or both fields absent gives the
\* supplied field its new value and leaves each absent field at its original
\* value, for every supported kind.
C1_PartialUpdatePreserves ==
    \A r \in Requests :
        (/\ Done(r) /\ request[r].op = "modify" /\ Valid(r)
         /\ (request[r].author = None \/ request[r].last_modified_by = None))
        => /\ response[r].status_code = HTTP_200
           /\ response[r].content.fmt = request[r].file.fmt
           /\ IdentityAuthor(response[r].content) =
                 IF request[r].author = None
                 THEN IdentityAuthor(request[r].file)
                 ELSE request[r].author
           /\ IdentityLastModifiedBy(response[r].content) =
                 IF request[r].last_modified_by = None
                 THEN IdentityLastModifiedBy(request[r].file)
                 ELSE request[r].last_modified_by

C1_Witness ==
    \E r \in Requests :
        /\ Done(r) /\ request[r].op = "modify"
        /\ request[r].file.fmt = "xlsx" /\ Valid(r)
        /\ IdentityAuthor(request[r].file) = "A"
        /\ IdentityLastModifiedBy(request[r].file) = "B"
        /\ request[r].author = "C" /\ request[r].last_modified_by = None
        /\ response[r].status_code = HTTP_200
        /\ IdentityAuthor(response[r].content) = "C"
        /\ IdentityLastModifiedBy(response[r].content) = "B"

\* C2: GetMetadata of the bytes UpdateMetadata returned for author = X and
\* lastModifiedBy = Y, under the same filename, returns exactly
\* {author: X, last_modified_by: Y}; UpdateMetadata of a valid document with
\* both fields supplied succeeds.
C2_RoundTrip ==
    \A r \in Requests :
        /\ (/\ Done(r) /\ request[r].op = "modify" /\ Valid(r)
            /\ request[r].author # None /\ request[r].last_modified_by # None)
           => response[r].status_code = HTTP_200
        /\ (/\ Done(r) /\ Chained(r)
            /\ chained[r].author # None /\ chained[r].last_modified_by # None)
           => /\ response[r].status_code = HTTP_200
              /\ response[r].content =
                    [author           |-> chained[r].author,
                     last_modified_by |-> chained[r].last_modified_by]

C2_Witness ==
    \E r \in Requests :
        /\ Done(r) /\ Chained(r)
        /\ chained[r].file.fmt = "xlsx"
        /\ IdentityAuthor(chained[r].file) = "A"
        /\ chained[r].author = "C" /\ chained[r].last_modified_by = "A"
        /\ response[r].status_code = HTTP_200
        /\ response[r].content = [author |-> "C", last_modified_by |-> "A"]

\* C5: a field supplied as "" is set to empty in the output (a later
\* GetMetadata returns "" for it whatever it was before), while a field not
\* supplied keeps its previous value.
C5_EmptyStringIsAnUpdate ==
    \A r \in Requests :
        (Done(r) /\ Chained(r))
        => /\ response[r].status_code = HTTP_200
           /\ chained[r].author = "" => response[r].content.author = ""
           /\ chained[r].author = None
                => response[r].content.author =
                      Or(IdentityAuthor(chained[r].file), "")
           /\ chained[r].last_modified_by = ""
                => response[r].content.last_modified_by = ""
           /\ chained[r].last_modified_by = None
                => response[r].content.last_modified_by =
                      Or(IdentityLastModifiedBy(chained[r].file), "")

C5_Witness ==
    \E r \in Requests :
        /\ Done(r) /\ Chained(r)
        /\ IdentityAuthor(chained[r].file) = "A"
        /\ IdentityLastModifiedBy(chained[r].file) = "B"
        /\ chained[r].author = "" /\ chained[r].last_modified_by = None
        /\ response[r].status_code = HTTP_200
        /\ response[r].content = [author |-> "", last_modified_by |-> "B"]

\* C6: for .xlsx the normalized author is read from and written to "creator"
\* and lastModifiedBy to "lastModifiedBy"; for .docx and .pptx they are
\* "author" and "last_modified_by"; both operations use the same names for
\* the same kind, and a write assigns no attribute of the other naming and
\* changes no other core property.
C6_KindSpecificMapping ==
    \A r \in Requests :
        (Done(r) /\ Valid(r))
        => LET in == request[r].file
               a  == IF in.fmt = "xlsx" THEN "creator" ELSE "author"
               l  == IF in.fmt = "xlsx" THEN "lastModifiedBy"
                                        ELSE "last_modified_by"
           IN  /\ response[r].status_code = HTTP_200
               /\ request[r].op = "get"
                    => /\ response[r].content.author = Or(in.core[a], "")
                       /\ response[r].content.last_modified_by =
                             Or(in.core[l], "")
               /\ request[r].op = "modify"
                    => /\ trace[r].written =
                             {a : x \in {request[r].author} \ {None}} \cup
                             {l : x \in {request[r].last_modified_by} \ {None}}
                       /\ DOMAIN response[r].content.core = DOMAIN in.core
                       /\ request[r].author # None
                            => response[r].content.core[a] = request[r].author
                       /\ request[r].last_modified_by # None
                            => response[r].content.core[l] =
                                  request[r].last_modified_by
                       /\ \A n \in (DOMAIN in.core) \ {a, l} :
                             response[r].content.core[n] = in.core[n]

C6_Witness ==
    \E r \in Requests :
        /\ Done(r) /\ Valid(r) /\ request[r].op = "modify"
        /\ request[r].file.fmt = "xlsx"
        /\ request[r].file.core["creator"] = "A"
        /\ request[r].author = "C" /\ request[r].last_modified_by = "B"
        /\ trace[r].written = {"creator", "lastModifiedBy"}
        /\ response[r].content.core["creator"] = "C"
        /\ response[r].content.core["lastModifiedBy"] = "B"

C9_ReadNormalization ==
    \A r \in Requests :
        /\ (Done(r) /\ request[r].op = "get" /\ Valid(r))
           => response[r].status_code = HTTP_200
        /\ (Done(r) /\ request[r].op = "get"
                    /\ response[r].status_code = HTTP_200)
           => /\ DOMAIN response[r].content = {"author", "last_modified_by"}
              /\ response[r].content.author \in Strings
              /\ response[r].content.last_modified_by \in Strings
              /\ response[r].content.author =
                    IF IdentityAuthor(request[r].file) = None THEN ""
                    ELSE IdentityAuthor(request[r].file)
              /\ response[r].content.last_modified_by =
                    IF IdentityLastModifiedBy(request[r].file) = None THEN ""
                    ELSE IdentityLastModifiedBy(request[r].file)

C9_Witness ==
    \E r \in Requests :
        /\ Done(r) /\ request[r].op = "get" /\ ~Chained(r)
        /\ request[r].file.fmt = "pptx"
        /\ IdentityAuthor(request[r].file) = None
        /\ IdentityLastModifiedBy(request[r].file) = "B"
        /\ response[r].status_code = HTTP_200
        /\ response[r].content = [author |-> "", last_modified_by |-> "B"]

\* m occurs in d as a run of consecutive fragments
Includes(d, m) ==
    \E i \in 0..(Len(d) - Len(m)) : SubSeq(d, i + 1, i + Len(m)) = m

\* request r carries, under a supported filename, bytes the library of that
\* kind cannot decode
Undecodable(r) ==
    /\ Detect(request[r].filename) \in Formats
    /\ request[r].file.fmt # Detect(request[r].filename)

\* C4 as stated: undecodable bytes under a supported filename fail as a client
\* error (a 4xx status) whose message includes the library's message, with no
\* metadata and no output bytes.
C4_CorruptIsClientError ==
    \A r \in Requests :
        (Done(r) /\ Undecodable(r))
        => /\ response[r].status_code \in 400..499
           /\ Includes(response[r].detail,
                       LibraryMessage(Detect(request[r].filename),
                                      request[r].file.fmt))
           /\ response[r].content = NoValue

\* C4 amended: undecodable bytes under a supported filename fail with status
\* 500 (a server error); the detail is "Failed to read metadata: " or
\* "Failed to process file: " followed by the library's message; no metadata
\* and no output bytes are returned.
C4_CorruptIsServerError ==
    \A r \in Requests :
        (Done(r) /\ Undecodable(r))
        => /\ response[r].status_code = HTTP_500
           /\ response[r].detail =
                 (IF request[r].op = "get"
                  THEN <<"Failed to read metadata: ">>
                  ELSE <<"Failed to process file: ">>)
                 \o LibraryMessage(Detect(request[r].filename),
                                   request[r].file.fmt)
           /\ response[r].content = NoValue
           /\ response[r].filename = <<>>

C4_Witness ==
    \E r \in Requests :
        /\ Done(r) /\ request[r].op = "get"
        /\ request[r].filename = <<"a", ".", "docx">>
        /\ request[r].file = Garbage
        /\ response[r].status_code = HTTP_500
        /\ Includes(response[r].detail, <<"File is not a zip file">>)

\* C3: a filename whose extension is none of .docx, .pptx, .xlsx makes both
\* operations fail with the 400 "Unsupported file type" client error, and no
\* decode is attempted.
C3_UnsupportedIsClientError ==
    \A r \in Requests :
        (Done(r) /\ SuffixKind(request[r].filename) = "NotSupported")
        => /\ response[r].status_code = HTTP_400
           /\ trace[r].opened = <<>>

\* C10 as stated: a request is accepted as kind k exactly when the text after
\* the last "." of its filename is k (docx, pptx or xlsx, case-sensitive),
\* and rejected otherwise, for both operations.
C10_SuffixDetection ==
    \A r \in Requests :
        Done(r)
        => trace[r].opened =
              IF SuffixKind(request[r].filename) = "NotSupported"
              THEN <<>>
              ELSE <<SuffixKind(request[r].filename)>>

\* C10 amended: a request is accepted as kind k exactly when the text after
\* the last "." of its filename is k (docx, pptx or xlsx, case-sensitive) and
\* that "." lies in the last path component with a character other than "."
\* before it there; every other filename is rejected before any decode; both
\* operations accept and reject the same filenames.
C10_DetectorStrictness ==
    \A r \in Requests :
        Done(r)
        => /\ trace[r].opened =
                 IF Detect(request[r].filename) = "NotSupported"
                 THEN <<>>
                 ELSE <<Detect(request[r].filename)>>
           /\ Detect(request[r].filename) = "NotSupported"
                => /\ response[r].status_code # HTTP_200
                   /\ response[r].content = NoValue

C10_Witness ==
    \E r \in Requests :
        /\ Done(r) /\ request[r].op = "modify"
        /\ request[r].filename = <<"a", "/", ".", "docx">>
        /\ trace[r].opened = <<>>
        /\ response[r].status_code # HTTP_200

\* the result request r produces when it runs alone on its own inputs
Alone(r) ==
    IF request[r].op = "get"
    THEN get_file_metadata(request[r].filename, request[r].file)
    ELSE modify_file_metadata(request[r].filename, request[r].file,
                              request[r].author, request[r].last_modified_by)

C8_ResultAlone ==
    \A r \in Requests :
        Done(r)
        => /\ response[r] = Alone(r).response
           /\ trace[r] = [opened  |-> Alone(r).opened,
                          written |-> Alone(r).written]

C8_Frame ==
    \A r \in Requests :
        pc'[r] = pc[r]
        => /\ request'[r] = request[r]
           /\ response'[r] = response[r]
           /\ trace'[r] = trace[r]
           /\ chained'[r] = chained[r]

====
